---- MODULE Spec2Model ----
(***************************************************************************)
(* Model of the two logic-bearing scripts of AntidetectedDriver:            *)
(*   src/src/scripts/links.js   getAllPageResources(), the resource scanner *)
(*   src/unnamed/part_000       window.loadedResources, the timing collector*)
(* The scanner is modelled sweep by sweep, one step per forEach callback    *)
(* (the video callback, which calls addResource twice, takes two steps).    *)
(* The collector is modelled as the injected script plus the platform's     *)
(* performance timeline that feeds it.                                      *)
(***************************************************************************)
EXTENDS Naturals, Sequences, FiniteSets

VARIABLES
  doc,              \* the document: its nodes in tree order
  resources,        \* links.js:2   the array being built by the running scan
  pc,               \* position of the scan: which sweep runs, or idle/done/threw
  idx,              \* index into the NodeList (or styleSheets) of the sweep
  sub,              \* video callback: 1 = src statement, 2 = poster statement;
                    \* font sweep: index of the rule inside the current sheet
  lastResult,       \* what the previous invocation returned
  hasLast,          \* an earlier invocation has returned
  perfBuffer,       \* platform: the resource-timing buffer of the document
  observerQueue,    \* platform: entries queued for the registered observer
  registered,       \* part_000:25  observer.observe(...) has run
  loadedResources,  \* part_000:1   window.loadedResources
  completed,        \* history: every entry the platform completed, in order
  seeded,           \* history: the buffer content read at part_000:3
  preInit,          \* history: how many entries had completed when the script ran
  batches,          \* history: the batches delivered to the callback, in order
  lastRead          \* what an external caller saw at its latest read

scanVars == <<doc, resources, pc, idx, sub, lastResult, hasLast>>
collVars == <<perfBuffer, observerQueue, registered, loadedResources,
              completed, seeded, preInit, batches, lastRead>>
vars == <<doc, resources, pc, idx, sub, lastResult, hasLast,
          perfBuffer, observerQueue, registered, loadedResources,
          completed, seeded, preInit, batches, lastRead>>

\* ------------------------------------------------------------------ bounds

MaxNodes == 2        \* nodes of a document
MaxEntries == 4      \* resource loads the platform completes in one run
BufferLimit == 2     \* capacity of the platform's resource-timing buffer

\* ------------------------------------------------------------- JS values

\* A value handed to addResource as `url`: a primitive string, undefined, or
\* an object.  obj is the identity of an object (the position of the node
\* that owns it); strict equality of two such values is equality of the
\* records.
Str(s) == [kind |-> "string", obj |-> 0, addr |-> s]
Undefined == [kind |-> "undefined", obj |-> 0, addr |-> ""]
AnimatedString(n, s) == [kind |-> "object", obj |-> n, addr |-> s]

\* JS truthiness of such a value: "" and undefined are falsy, objects truthy.
Truthy(u) == u.kind = "object" \/ (u.kind = "string" /\ u.addr # "")

\* a || b
OrElse(a, b) == IF Truthy(a) THEN a ELSE b

\* --------------------------------------------------------------- document

\* A computed CSS value (background-image, or the src descriptor of a
\* @font-face rule) as its comma-separated layers: a url(...) layer with its
\* text, or a layer without url(...) (none, a gradient, local(...)).
UrlLayer(s) == [isUrl |-> TRUE, url |-> s]
OtherLayer == [isUrl |-> FALSE, url |-> ""]
NoValue == <<>>

CssValues ==
  { NoValue, <<OtherLayer>>, <<UrlLayer("a")>>, <<UrlLayer("")>>,
    <<UrlLayer("a"), UrlLayer("b")>>, <<OtherLayer, UrlLayer("b")>>,
    <<UrlLayer(""), UrlLayer("b")>> }

FontFace(v) == [fontFace |-> TRUE, src |-> v]
StyleRule == [fontFace |-> FALSE, src |-> NoValue]

\* A style sheet of document.styleSheets: reading cssRules of a cross-origin
\* sheet throws (denied); otherwise it yields the rules.
NoSheet == [attached |-> FALSE, denied |-> FALSE, rules |-> <<>>]
DeniedSheet(rs) == [attached |-> TRUE, denied |-> TRUE, rules |-> rs]
Sheet(rs) == [attached |-> TRUE, denied |-> FALSE, rules |-> rs]

RuleLists ==
  { <<>>, <<FontFace(<<UrlLayer("a")>>)>>, <<FontFace(<<UrlLayer("b")>>)>>,
    <<StyleRule, FontFace(<<UrlLayer("")>>)>>,
    <<FontFace(<<OtherLayer, UrlLayer("b")>>), FontFace(<<UrlLayer("a")>>)>> }

AttrVals == {"", "a", "b"}
Rels == {"", "icon", "stylesheet", "alternate stylesheet"}

Node(t, s, p, hp, r, par, b, sh) ==
  [tag |-> t, src |-> s, poster |-> p, hasPoster |-> hp, rel |-> r,
   parent |-> par, bg |-> b, sheet |-> sh]

\* The nodes a document is built from.  src is the value of the node's
\* address property (href, src or data; the attribute is present, its value
\* may be empty).
Nodes ==
       { Node("link", s, "", FALSE, r, "", NoValue, NoSheet) :
           s \in {"", "a"}, r \in {"", "icon"} }
  \cup { Node("link", "a", "", FALSE, r, "", NoValue, sh) :
           r \in {"stylesheet", "alternate stylesheet"},
           sh \in {DeniedSheet(<<FontFace(<<UrlLayer("c")>>)>>),
                   Sheet(<<FontFace(<<UrlLayer("c")>>)>>)} }
  \cup { Node("script", s, "", FALSE, "", "", NoValue, NoSheet) : s \in {"", "a"} }
  \cup { Node("img", s, "", FALSE, "", "", NoValue, NoSheet) : s \in AttrVals }
  \cup { Node("source", s, "", FALSE, "", par, NoValue, NoSheet) :
           s \in {"", "b"}, par \in {"video", "audio", "picture"} }
  \cup { Node("image", s, "", FALSE, "", "", NoValue, NoSheet) : s \in {"", "a"} }
  \cup { Node("video", s, p, TRUE, "", "", NoValue, NoSheet) :
           s \in {"", "a"}, p \in {"", "b"} }
  \cup { Node("video", "a", "", FALSE, "", "", NoValue, NoSheet) }
  \cup { Node(t, s, "", FALSE, "", "", NoValue, NoSheet) :
           t \in {"iframe", "embed", "object"}, s \in {"", "b"} }
  \cup { Node("div", "", "", FALSE, "", "", b, NoSheet) : b \in CssValues }
  \cup { Node("style", "", "", FALSE, "", "", NoValue, Sheet(rs)) : rs \in RuleLists }

Docs == UNION { [1..n -> Nodes] : n \in 0..MaxNodes }

\* element.matches(selector), for the selectors of links.js
Matches(sel, n) ==
  CASE sel = "link[href]" -> n.tag = "link"
    [] sel = "script[src]" -> n.tag = "script"
    [] sel = "img[src], source[src], image[href]" -> n.tag \in {"img", "source", "image"}
    [] sel = "video source[src], video[poster]" ->
         (n.tag = "source" /\ n.parent = "video") \/ (n.tag = "video" /\ n.hasPoster)
    [] sel = "audio source[src]" -> n.tag = "source" /\ n.parent = "audio"
    [] sel = "*" -> TRUE
    [] sel = "iframe[src], embed[src]" -> n.tag \in {"iframe", "embed"}
    [] sel = "object[data]" -> n.tag = "object"

\* document.querySelectorAll(selector) on d: the positions of the matching
\* nodes, in tree order.
QuerySelectorAll(d, sel) ==
  SelectSeq([i \in 1..Len(d) |-> i], LAMBDA i : Matches(sel, d[i]))

\* Array.from(document.styleSheets) on d: the positions of the nodes that
\* own a sheet, in tree order.
StyleSheets(d) ==
  SelectSeq([i \in 1..Len(d) |-> i], LAMBDA i : d[i].sheet.attached)

\* ---------------------------------------------------------------- scanner

\* addResource without the resources.some(...) test
AddResourceNoSome(res, url, type) ==
  IF ~Truthy(url) THEN res ELSE Append(res, [url |-> url, type |-> type])

\* addResource that overwrites the type of the record already holding url
AddResourceLastWins(res, url, type) ==
  IF ~Truthy(url) THEN res
  ELSE IF \E i \in 1..Len(res) : res[i].url = url
  THEN [i \in 1..Len(res) |->
          IF res[i].url = url THEN [url |-> url, type |-> type] ELSE res[i]]
  ELSE Append(res, [url |-> url, type |-> type])

\* addResource whose duplicate test also sees what earlier invocations returned
AddResourceSeenBefore(res, url, type) ==
  IF \/ ~Truthy(url)
     \/ \E i \in 1..Len(res) : res[i].url = url
     \/ \E i \in 1..Len(lastResult) : lastResult[i].url = url
  THEN res
  ELSE Append(res, [url |-> url, type |-> type])

\* links.js:5-8
AddResource(res, url, type) ==
  IF ~Truthy(url) \/ (\E i \in 1..Len(res) : res[i].url = url)
  THEN res
  ELSE Append(res, [url |-> url, type |-> type])

\* link.rel.includes('stylesheet'), on the relation strings of Rels
IncludesStylesheet(rel) == rel \in {"stylesheet", "alternate stylesheet"}

\* the link type without the stylesheet test
LinkTypeRawRel(rel) == IF rel # "" THEN rel ELSE "link"

\* links.js:12
LinkType(rel) ==
  IF IncludesStylesheet(rel) THEN "css" ELSE IF rel # "" THEN rel ELSE "link"

\* links.js:11-14
LinkCallback(res, n) == AddResource(res, Str(n.src), LinkType(n.rel))

\* links.js:17-19
ScriptCallback(res, n) == AddResource(res, Str(n.src), "js")

\* The src property: img, source and video elements reflect it as a string;
\* an SVG image element has none.
SrcProp(n) == IF n.tag = "image" THEN Undefined ELSE Str(n.src)

\* The href property of the nodes 'img[src], source[src], image[href]' can
\* match: img and source have none; the href of an SVG image element is an
\* SVGAnimatedString object (one per element), not a string.
HrefProp(n, pos) == IF n.tag = "image" THEN AnimatedString(pos, n.src) ELSE Undefined

\* The poster property: a string on video, absent on source.
PosterProp(n) == IF n.tag = "video" THEN Str(n.poster) ELSE Undefined

\* links.js:22-26
ImageCallback(res, n, pos) == AddResource(res, OrElse(SrcProp(n), HrefProp(n, pos)), "image")

\* links.js:30-32
VideoSrcStatement(res, n) ==
  IF Truthy(SrcProp(n)) THEN AddResource(res, SrcProp(n), "video") ELSE res

\* links.js:33-35
VideoPosterStatement(res, n) ==
  IF Truthy(PosterProp(n)) THEN AddResource(res, PosterProp(n), "video_poster") ELSE res

\* links.js:39-41
AudioCallback(res, n) == AddResource(res, SrcProp(n), "audio")

\* value.match(/url\(["']?(.*?)["']?\)/): the leftmost url(...) of the value
\* and its captured text, or no match.
RECURSIVE UrlMatchFrom(_, _)
UrlMatchFrom(v, i) ==
  IF i > Len(v) THEN [matched |-> FALSE, group |-> ""]
  ELSE IF v[i].isUrl THEN [matched |-> TRUE, group |-> v[i].url]
  ELSE UrlMatchFrom(v, i + 1)

UrlMatch(v) == UrlMatchFrom(v, 1)

\* links.js:44-50
BackgroundCallback(res, n) ==
  LET bgImage == UrlMatch(n.bg) IN
  IF bgImage.matched /\ bgImage.group # ""
  THEN AddResource(res, Str(bgImage.group), "css_background_image")
  ELSE res

\* links.js:53-55
FrameCallback(res, n) == AddResource(res, Str(n.src), "embedded_content")

\* links.js:58-60
ObjectCallback(res, n) == AddResource(res, Str(n.src), "object_data")

\* links.js:65-72
FontRuleCallback(res, rule) ==
  IF rule.fontFace
  THEN LET srcMatch == UrlMatch(rule.src) IN
       IF srcMatch.matched /\ srcMatch.group # ""
       THEN AddResource(res, Str(srcMatch.group), "font")
       ELSE res
  ELSE res

\* the font sweep without its try/catch: the error leaves the scan
AfterSheetErrorUncaught == "threw"

\* links.js:73-75  catch (e) {}: where the scan goes on after cssRules threw
AfterSheetError == "fonts"

\* links.js:2  const resources = []
StartScan ==
  /\ pc \in {"idle", "done"}
  /\ resources' = <<>>
  /\ pc' = "links" /\ idx' = 1 /\ sub' = 1
  /\ lastResult' = IF pc = "done" THEN resources ELSE lastResult
  /\ hasLast' = (pc = "done")
  /\ UNCHANGED <<doc, collVars>>

SweepLinks ==
  /\ pc = "links"
  /\ LET list == QuerySelectorAll(doc, "link[href]") IN
     IF idx <= Len(list)
     THEN /\ resources' = LinkCallback(resources, doc[list[idx]])
          /\ idx' = idx + 1 /\ pc' = pc
     ELSE /\ pc' = "scripts" /\ idx' = 1 /\ UNCHANGED resources
  /\ UNCHANGED <<doc, sub, lastResult, hasLast, collVars>>

SweepScripts ==
  /\ pc = "scripts"
  /\ LET list == QuerySelectorAll(doc, "script[src]") IN
     IF idx <= Len(list)
     THEN /\ resources' = ScriptCallback(resources, doc[list[idx]])
          /\ idx' = idx + 1 /\ pc' = pc
     ELSE /\ pc' = "images" /\ idx' = 1 /\ UNCHANGED resources
  /\ UNCHANGED <<doc, sub, lastResult, hasLast, collVars>>

SweepImages ==
  /\ pc = "images"
  /\ LET list == QuerySelectorAll(doc, "img[src], source[src], image[href]") IN
     IF idx <= Len(list)
     THEN /\ resources' = ImageCallback(resources, doc[list[idx]], list[idx])
          /\ idx' = idx + 1 /\ pc' = pc
     ELSE /\ pc' = "video" /\ idx' = 1 /\ UNCHANGED resources
  /\ UNCHANGED <<doc, sub, lastResult, hasLast, collVars>>

SweepVideo ==
  /\ pc = "video"
  /\ LET list == QuerySelectorAll(doc, "video source[src], video[poster]") IN
     IF idx <= Len(list)
     THEN IF sub = 1
          THEN /\ resources' = VideoSrcStatement(resources, doc[list[idx]])
               /\ sub' = 2 /\ idx' = idx /\ pc' = pc
          ELSE /\ resources' = VideoPosterStatement(resources, doc[list[idx]])
               /\ sub' = 1 /\ idx' = idx + 1 /\ pc' = pc
     ELSE /\ pc' = "audio" /\ idx' = 1 /\ UNCHANGED <<resources, sub>>
  /\ UNCHANGED <<doc, lastResult, hasLast, collVars>>

SweepAudio ==
  /\ pc = "audio"
  /\ LET list == QuerySelectorAll(doc, "audio source[src]") IN
     IF idx <= Len(list)
     THEN /\ resources' = AudioCallback(resources, doc[list[idx]])
          /\ idx' = idx + 1 /\ pc' = pc
     ELSE /\ pc' = "backgrounds" /\ idx' = 1 /\ UNCHANGED resources
  /\ UNCHANGED <<doc, sub, lastResult, hasLast, collVars>>

SweepBackgrounds ==
  /\ pc = "backgrounds"
  /\ LET list == QuerySelectorAll(doc, "*") IN
     IF idx <= Len(list)
     THEN /\ resources' = BackgroundCallback(resources, doc[list[idx]])
          /\ idx' = idx + 1 /\ pc' = pc
     ELSE /\ pc' = "frames" /\ idx' = 1 /\ UNCHANGED resources
  /\ UNCHANGED <<doc, sub, lastResult, hasLast, collVars>>

SweepFrames ==
  /\ pc = "frames"
  /\ LET list == QuerySelectorAll(doc, "iframe[src], embed[src]") IN
     IF idx <= Len(list)
     THEN /\ resources' = FrameCallback(resources, doc[list[idx]])
          /\ idx' = idx + 1 /\ pc' = pc
     ELSE /\ pc' = "objects" /\ idx' = 1 /\ UNCHANGED resources
  /\ UNCHANGED <<doc, sub, lastResult, hasLast, collVars>>

SweepObjects ==
  /\ pc = "objects"
  /\ LET list == QuerySelectorAll(doc, "object[data]") IN
     IF idx <= Len(list)
     THEN /\ resources' = ObjectCallback(resources, doc[list[idx]])
          /\ idx' = idx + 1 /\ pc' = pc
     ELSE /\ pc' = "fonts" /\ idx' = 1 /\ UNCHANGED resources
  /\ UNCHANGED <<doc, sub, lastResult, hasLast, collVars>>

\* links.js:63-76: one step per rule of an accessible sheet; a sheet whose
\* cssRules getter throws is left through the catch before any rule is read.
SweepFonts ==
  /\ pc = "fonts"
  /\ LET list == StyleSheets(doc) IN
     IF idx <= Len(list)
     THEN LET sheet == doc[list[idx]].sheet IN
          IF sheet.denied
          THEN /\ pc' = AfterSheetError
               /\ idx' = idx + 1 /\ UNCHANGED <<resources, sub>>
          ELSE IF sub <= Len(sheet.rules)
          THEN /\ resources' = FontRuleCallback(resources, sheet.rules[sub])
               /\ sub' = sub + 1 /\ idx' = idx /\ pc' = pc
          ELSE /\ idx' = idx + 1 /\ sub' = 1 /\ pc' = pc /\ UNCHANGED resources
     ELSE /\ pc' = "return" /\ idx' = 1 /\ UNCHANGED <<resources, sub>>
  /\ UNCHANGED <<doc, lastResult, hasLast, collVars>>

\* links.js:78  return resources
ReturnResources ==
  /\ pc = "return"
  /\ pc' = "done"
  /\ UNCHANGED <<doc, resources, idx, sub, lastResult, hasLast, collVars>>

CollectorIdle ==
  /\ perfBuffer = <<>> /\ observerQueue = <<>> /\ registered = FALSE
  /\ loadedResources = <<>> /\ completed = <<>> /\ seeded = <<>> /\ preInit = 0
  /\ batches = <<>> /\ lastRead = <<>>

Init ==
  /\ doc \in Docs
  /\ resources = <<>> /\ pc = "idle" /\ idx = 1 /\ sub = 1
  /\ lastResult = <<>> /\ hasLast = FALSE
  /\ CollectorIdle

Next ==
  \/ StartScan
  \/ SweepLinks
  \/ SweepScripts
  \/ SweepImages
  \/ SweepVideo
  \/ SweepAudio
  \/ SweepBackgrounds
  \/ SweepFrames
  \/ SweepObjects
  \/ SweepFonts
  \/ ReturnResources

Spec == Init /\ [][Next]_vars

\* -------------------------------------------------------------- collector

\* The PerformanceResourceTiming entries the platform may report.  Two of
\* them carry the same name (a repeated fetch of one address).
Entries ==
  { [name |-> "a", initiatorType |-> "img", duration |-> 1, transferSize |-> 0, startTime |-> 1],
    [name |-> "a", initiatorType |-> "script", duration |-> 2, transferSize |-> 5, startTime |-> 3],
    [name |-> "b", initiatorType |-> "css", duration |-> 1, transferSize |-> 5, startTime |-> 2] }

\* part_000:5-11 and 16-22  the record pushed for one entry
ToRecord(e) ==
  [name |-> e.name, type |-> e.initiatorType, duration |-> e.duration,
   size |-> e.transferSize, startTime |-> e.startTime]

\* part_000:1-12  window.loadedResources = [] and the forEach over the
\* entries getEntriesByType('resource') returned
SeedRecords(buf) == [i \in 1..Len(buf) |-> ToRecord(buf[i])]

\* the callback with unshift in place of push
AppendBatchUnshift(log, batch) ==
  [i \in 1..Len(batch) |-> ToRecord(batch[Len(batch) + 1 - i])] \o log

\* the callback skipping an entry whose name the log already holds
RECURSIVE AppendBatchSkipKnown(_, _)
AppendBatchSkipKnown(log, batch) ==
  IF batch = <<>> THEN log
  ELSE AppendBatchSkipKnown(
         IF \E i \in 1..Len(log) : log[i].name = Head(batch).name
         THEN log ELSE Append(log, ToRecord(Head(batch))),
         Tail(batch))

\* part_000:14-24  the observer callback on list.getEntries()
AppendBatch(log, batch) == log \o [i \in 1..Len(batch) |-> ToRecord(batch[i])]

\* observe({type: 'resource', buffered: true}): the buffer is queued again
QueueAtObserveBuffered(buf) == buf

\* part_000:25  observe({entryTypes: ['resource']}): nothing that completed
\* earlier is queued for the new observer
QueueAtObserve(buf) == <<>>

\* The platform completes a resource load: the entry is queued for the
\* registered observer and added to the resource-timing buffer unless the
\* buffer is full, in which case the buffer drops it.
PlatformComplete(e) ==
  /\ Len(completed) < MaxEntries
  /\ completed' = Append(completed, e)
  /\ perfBuffer' = IF Len(perfBuffer) < BufferLimit THEN Append(perfBuffer, e) ELSE perfBuffer
  /\ observerQueue' = IF registered THEN Append(observerQueue, e) ELSE observerQueue
  /\ UNCHANGED <<registered, loadedResources, seeded, preInit, batches, lastRead, scanVars>>

\* part_000:1-25  the script, run once per document, as one synchronous task
RunCollectorScript ==
  /\ ~registered
  /\ loadedResources' = SeedRecords(perfBuffer)
  /\ observerQueue' = QueueAtObserve(perfBuffer)
  /\ registered' = TRUE
  /\ seeded' = perfBuffer
  /\ preInit' = Len(completed)
  /\ UNCHANGED <<perfBuffer, completed, batches, lastRead, scanVars>>

\* part_000:14-24  the platform delivers what it queued as one batch
ObserverCallback ==
  /\ registered /\ observerQueue # <<>>
  /\ loadedResources' = AppendBatch(loadedResources, observerQueue)
  /\ batches' = Append(batches, observerQueue)
  /\ observerQueue' = <<>>
  /\ UNCHANGED <<perfBuffer, registered, completed, seeded, preInit, lastRead, scanVars>>

\* An external caller reads window.loadedResources.
ExternalRead ==
  /\ registered
  /\ lastRead' = loadedResources
  /\ UNCHANGED <<perfBuffer, observerQueue, registered, loadedResources,
                 completed, seeded, preInit, batches, scanVars>>

InitCollector ==
  /\ doc = <<>>
  /\ resources = <<>> /\ pc = "idle" /\ idx = 1 /\ sub = 1
  /\ lastResult = <<>> /\ hasLast = FALSE
  /\ CollectorIdle

NextCollector ==
  \/ \E e \in Entries : PlatformComplete(e)
  \/ RunCollectorScript
  \/ ObserverCallback
  \/ ExternalRead

SpecCollector == InitCollector /\ [][NextCollector]_vars

\* ------------------------------------------------- properties: the scanner

RECURSIVE Flatten(_)
Flatten(ss) == IF ss = <<>> THEN <<>> ELSE Head(ss) \o Flatten(Tail(ss))

Offer(u, t) == IF Truthy(u) THEN <<[url |-> u, type |-> t]>> ELSE <<>>

\* What each of the nine predicates extracts from document d, as the (url,
\* type) candidates with a non-empty url, in the order of section 4.1 and,
\* inside a predicate, in tree order.
LinkOffers(d) ==
  Flatten([k \in 1..Len(QuerySelectorAll(d, "link[href]")) |->
    LET n == d[QuerySelectorAll(d, "link[href]")[k]] IN Offer(Str(n.src), LinkType(n.rel))])

ScriptOffers(d) ==
  Flatten([k \in 1..Len(QuerySelectorAll(d, "script[src]")) |->
    LET n == d[QuerySelectorAll(d, "script[src]")[k]] IN Offer(Str(n.src), "js")])

ImageOffers(d) ==
  Flatten([k \in 1..Len(QuerySelectorAll(d, "img[src], source[src], image[href]")) |->
    LET i == QuerySelectorAll(d, "img[src], source[src], image[href]")[k] IN
    Offer(IF d[i].tag = "image" THEN AnimatedString(i, d[i].src) ELSE Str(d[i].src),
          "image")])

VideoOffers(d) ==
  Flatten([k \in 1..Len(QuerySelectorAll(d, "video source[src], video[poster]")) |->
    LET n == d[QuerySelectorAll(d, "video source[src], video[poster]")[k]] IN
    Offer(Str(n.src), "video")
      \o (IF n.tag = "video" THEN Offer(Str(n.poster), "video_poster") ELSE <<>>)])

AudioOffers(d) ==
  Flatten([k \in 1..Len(QuerySelectorAll(d, "audio source[src]")) |->
    LET n == d[QuerySelectorAll(d, "audio source[src]")[k]] IN Offer(Str(n.src), "audio")])

\* The first url(...) of a CSS value, "" when it has none.
FirstUrl(v) ==
  IF \E i \in 1..Len(v) : v[i].isUrl
  THEN v[CHOOSE i \in 1..Len(v) :
           v[i].isUrl /\ \A j \in 1..(i - 1) : ~v[j].isUrl].url
  ELSE ""

BackgroundOffers(d) ==
  Flatten([i \in 1..Len(d) |-> Offer(Str(FirstUrl(d[i].bg)), "css_background_image")])

FrameOffers(d) ==
  Flatten([k \in 1..Len(QuerySelectorAll(d, "iframe[src], embed[src]")) |->
    LET n == d[QuerySelectorAll(d, "iframe[src], embed[src]")[k]] IN Offer(Str(n.src), "embedded_content")])

ObjectOffers(d) ==
  Flatten([k \in 1..Len(QuerySelectorAll(d, "object[data]")) |->
    LET n == d[QuerySelectorAll(d, "object[data]")[k]] IN Offer(Str(n.src), "object_data")])

SheetOffers(sheet) ==
  Flatten([j \in 1..Len(sheet.rules) |->
    IF sheet.rules[j].fontFace
    THEN Offer(Str(FirstUrl(sheet.rules[j].src)), "font")
    ELSE <<>>])

\* The font candidates of the sheets whose rules can be read.
FontOffers(d) ==
  Flatten([k \in 1..Len(StyleSheets(d)) |->
    LET sheet == d[StyleSheets(d)[k]].sheet IN
    IF sheet.denied THEN <<>> ELSE SheetOffers(sheet)])

StructuralOffers(d) ==
  LinkOffers(d) \o ScriptOffers(d) \o ImageOffers(d) \o VideoOffers(d)
    \o AudioOffers(d) \o BackgroundOffers(d) \o FrameOffers(d) \o ObjectOffers(d)

AllOffers(d) == StructuralOffers(d) \o FontOffers(d)

\* The candidates of cs whose url no earlier candidate carries, in order.
FirstOccurrences(cs) ==
  LET keep == SelectSeq([k \in 1..Len(cs) |-> k],
                        LAMBDA k : \A j \in 1..(k - 1) : cs[j].url # cs[k].url)
  IN [m \in 1..Len(keep) |-> cs[keep[m]]]

IsPrefix(s, t) == Len(s) <= Len(t) /\ SubSeq(t, 1, Len(s)) = s

Urls(res) == { res[i].url : i \in 1..Len(res) }

\* d with the sheets whose rules cannot be read detached.
WithoutDeniedSheets(d) ==
  [i \in 1..Len(d) |->
     IF d[i].sheet.denied THEN [d[i] EXCEPT !.sheet = NoSheet] ELSE d[i]]

Running == pc \notin {"idle", "done", "threw"}

C2_EarliestWins ==
  /\ [](pc = "done" => resources = FirstOccurrences(AllOffers(doc)))
  /\ [][Running => IsPrefix(resources, resources')]_vars

\* C2 witness: a stylesheet link and an img share the address a; the scan
\* returned one record for a, of the stylesheet type, as its first record.
C2_Witness ==
  /\ pc = "done" /\ Len(doc) = 2
  /\ doc[1].tag = "link" /\ doc[1].rel = "stylesheet" /\ doc[1].src = "a"
  /\ doc[2].tag = "img" /\ doc[2].src = "a"
  /\ resources[1] = [url |-> Str("a"), type |-> "css"]
  /\ \A i \in 2..Len(resources) : resources[i].url # Str("a")

\* C4 (graceful degradation): the scan never leaves through an exception;
\* what it returns is what the predicates extract from the same document with
\* the denied sheets detached (so the records of predicates 1-8 are
\* untouched and every readable sheet, before or after a denied one, still
\* contributes its font urls); and a document of two sheets, each with one
\* @font-face url, the two urls distinct and extracted by nothing else, one
\* sheet denied, returns exactly one font record.
C4_GracefulDegradation ==
  /\ pc # "threw"
  /\ pc = "done" =>
       /\ resources = FirstOccurrences(
            StructuralOffers(WithoutDeniedSheets(doc))
              \o Flatten([k \in 1..Len(StyleSheets(WithoutDeniedSheets(doc))) |->
                   SheetOffers(WithoutDeniedSheets(doc)[
                     StyleSheets(WithoutDeniedSheets(doc))[k]].sheet)]))
       /\ \A i \in 1..Len(doc) :
            (doc[i].sheet.attached /\ ~doc[i].sheet.denied) =>
              \A j \in 1..Len(doc[i].sheet.rules) :
                (doc[i].sheet.rules[j].fontFace /\ FirstUrl(doc[i].sheet.rules[j].src) # "")
                  => Str(FirstUrl(doc[i].sheet.rules[j].src)) \in Urls(resources)
       /\ ( /\ Len(doc) = 2
            /\ \A i \in 1..2 :
                 /\ doc[i].sheet.attached /\ Len(doc[i].sheet.rules) = 1
                 /\ doc[i].sheet.rules[1].fontFace
                 /\ FirstUrl(doc[i].sheet.rules[1].src) # ""
                 /\ \A k \in 1..Len(StructuralOffers(doc)) :
                      StructuralOffers(doc)[k].url # Str(FirstUrl(doc[i].sheet.rules[1].src))
            /\ FirstUrl(doc[1].sheet.rules[1].src) # FirstUrl(doc[2].sheet.rules[1].src)
            /\ doc[1].sheet.denied # doc[2].sheet.denied )
          => Cardinality({ i \in 1..Len(resources) : resources[i].type = "font" }) = 1

\* C4 witness: the first of two sheets is denied, the second is readable; the
\* scan returned the link's own record and the one font of the second sheet.
C4_Witness ==
  /\ pc = "done" /\ Len(doc) = 2
  /\ doc[1].sheet.attached /\ doc[1].sheet.denied
  /\ doc[1].sheet.rules = <<FontFace(<<UrlLayer("c")>>)>>
  /\ doc[2].sheet = Sheet(<<FontFace(<<UrlLayer("b")>>)>>)
  /\ resources = <<[url |-> Str("a"), type |-> "css"], [url |-> Str("b"), type |-> "font"]>>

\* C5 (order determinism, idempotence): an invocation that follows another
\* on the document, which no step of a scan changes, returns the very
\* sequence the earlier one returned.
C5_RescanIdentical ==
  /\ []((pc = "done" /\ hasLast) => resources = lastResult)
  /\ [][doc' = doc]_vars

\* C5 witness: a second invocation has returned two or more records.
C5_Witness == pc = "done" /\ hasLast /\ Len(resources) >= 2

\* C7 (media-source classification), as claimed: a source with a non-empty
\* address inside an audio element, not referenced by a link or a script, is
\* recorded as audio; such a source inside a video element as video; and the
\* poster of a video, when no earlier candidate carries its url, as
\* video_poster.
C7_MediaSourceKinds ==
  pc = "done" =>
    \A i \in 1..Len(doc) :
      LET n == doc[i]
          early == LinkOffers(doc) \o ScriptOffers(doc)
          unreferenced == \A k \in 1..Len(early) : early[k].url # Str(n.src)
      IN
      /\ (n.tag = "source" /\ n.parent = "audio" /\ n.src # "" /\ unreferenced)
           => [url |-> Str(n.src), type |-> "audio"] \in { resources[k] : k \in 1..Len(resources) }
      /\ (n.tag = "source" /\ n.parent = "video" /\ n.src # "" /\ unreferenced)
           => [url |-> Str(n.src), type |-> "video"] \in { resources[k] : k \in 1..Len(resources) }
      /\ ( /\ n.tag = "video" /\ n.hasPoster /\ n.poster # ""
           /\ \A k \in 1..Len(AllOffers(doc)) :
                AllOffers(doc)[k].url = Str(n.poster) => AllOffers(doc)[k].type = "video_poster" )
           => [url |-> Str(n.poster), type |-> "video_poster"]
                \in { resources[k] : k \in 1..Len(resources) }

FixedTypes ==
  { "css", "js", "image", "video", "video_poster", "audio",
    "css_background_image", "embedded_content", "object_data", "font" }

\* The raw relation strings of the non-stylesheet links of d whose address is u.
RawRelations(d, u) ==
  { d[i].rel : i \in { k \in 1..Len(d) :
      d[k].tag = "link" /\ ~IncludesStylesheet(d[k].rel) /\ Str(d[k].src) = u } }

\* C8 (kind domain), as claimed: every record has exactly two fields, and
\* its type is one of the ten fixed tags or the raw relation string of a
\* non-stylesheet link with that record's url.
C8_KindDomainOriginal ==
  \A i \in 1..Len(resources) :
    /\ DOMAIN resources[i] = {"url", "type"}
    /\ \/ resources[i].type \in FixedTypes
       \/ resources[i].type \in RawRelations(doc, resources[i].url)

\* C8 amended: every record has exactly two fields, and its type is one of
\* the ten fixed tags, or the raw relation string of a non-stylesheet link
\* with that record's url when that string is not empty, or the fallback tag
\* "link" when such a link has an empty relation.
C8_KindDomain ==
  \A i \in 1..Len(resources) :
    /\ DOMAIN resources[i] = {"url", "type"}
    /\ \/ resources[i].type \in FixedTypes
       \/ resources[i].type \in RawRelations(doc, resources[i].url) \ {""}
       \/ resources[i].type = "link" /\ "" \in RawRelations(doc, resources[i].url)

\* C8 witness: a link with an address and an empty relation was recorded.
C8_Witness ==
  /\ pc = "done" /\ Len(doc) >= 1
  /\ doc[1].tag = "link" /\ doc[1].rel = "" /\ doc[1].src = "a"
  /\ resources[1] = [url |-> Str("a"), type |-> "link"]

\* The addresses the nine predicates extract from d (attribute values and
\* first url(...) texts), empty ones included.
ExtractedAddresses(d) ==
     { d[i].src : i \in { k \in 1..Len(d) :
         \/ d[k].tag \in {"link", "script", "img", "source", "image",
                          "iframe", "embed", "object"}
         \/ d[k].tag = "video" /\ d[k].hasPoster } }
  \cup { d[i].poster : i \in { k \in 1..Len(d) : d[k].tag = "video" /\ d[k].hasPoster } }
  \cup { FirstUrl(d[i].bg) : i \in 1..Len(d) }
  \cup UNION { { FirstUrl(d[i].sheet.rules[j].src) :
                   j \in { m \in 1..Len(d[i].sheet.rules) : d[i].sheet.rules[m].fontFace } } :
                 i \in { k \in 1..Len(d) : d[k].sheet.attached /\ ~d[k].sheet.denied } }

\* C9 (inventory exactness), as claimed: the addresses of the returned
\* records are exactly the non-empty addresses the predicates extract, and no
\* record carries an empty address.
C9_InventoryExact ==
  pc = "done" =>
    /\ \A i \in 1..Len(resources) : resources[i].url.addr # ""
    /\ { resources[i].url.addr : i \in 1..Len(resources) } = ExtractedAddresses(doc) \ {""}

\* ----------------------------------------------- properties: the collector

Records(es) == [i \in 1..Len(es) |-> ToRecord(es[i])]

Count(s, v) == Cardinality({ i \in 1..Len(s) : s[i] = v })

\* The entries that completed after the script ran.
CompletedAfterInit == SubSeq(completed, preInit + 1, Len(completed))

\* C3 (collector append-only): no step shortens window.loadedResources or
\* changes a record it holds (the log before a step is a prefix of the log
\* after it), and what a caller read is a prefix of the log at every later
\* moment.
C3_AppendOnly ==
  /\ [][IsPrefix(loadedResources, loadedResources')]_vars
  /\ [](IsPrefix(lastRead, loadedResources))

\* C3 witness: a caller read a non-empty log, and a later delivery made the
\* log longer than what was read.
C3_Witness ==
  /\ Len(lastRead) >= 1 /\ Len(loadedResources) > Len(lastRead)
  /\ Len(batches) >= 1

\* C6 (collector ordering): once the script has run, the log is the records
\* of the entries buffered before initialization, in buffer order, followed by
\* the records of the delivered batches, batch after batch, each in its own
\* order, entries with an already recorded name included.
C6_SeedThenBatches ==
  /\ ~registered => loadedResources = <<>>
  /\ registered => loadedResources = Records(seeded \o Flatten(batches))

\* C6 witness: a seeded entry, then two delivered batches, the first of two
\* entries, and a name that the log holds twice.
C6_Witness ==
  /\ Len(seeded) >= 1 /\ Len(batches) = 2 /\ Len(batches[1]) = 2
  /\ \E i, j \in 1..Len(loadedResources) :
       i # j /\ loadedResources[i].name = loadedResources[j].name

\* C10 (exactly-once capture), as claimed: once the script has run, every
\* entry the platform completed, before or after initialization, is in the
\* log or queued for the observer, as often as it completed.
C10_EveryEntryOnce ==
  registered =>
    \A e \in Entries :
      Count(loadedResources, ToRecord(e)) + Count(observerQueue, e) = Count(completed, e)

\* C10 amended: once the script has run, every entry the platform's buffer
\* held when the script ran, and every entry completed after that, is in the
\* log or queued for the observer, as often as it was buffered or completed;
\* an entry the full buffer dropped before initialization is not recorded.
C10_RetainedEntriesOnce ==
  registered =>
    \A e \in Entries :
      Count(loadedResources, ToRecord(e)) + Count(observerQueue, e)
        = Count(seeded, e) + Count(CompletedAfterInit, e)

\* C10 witness: the buffer dropped an entry before the script ran, entries
\* completed afterwards, and all of those were delivered.
C10_Witness ==
  /\ registered /\ preInit > Len(seeded) /\ Len(seeded) >= 1
  /\ Len(completed) > preInit /\ observerQueue = <<>>
  /\ Len(loadedResources) = Len(seeded) + Len(completed) - preInit

====
